---- MODULE Spec2Model ----
(***************************************************************************)
(* The S3 call/log store of api/logs/s3: the key codec (callKey,           *)
(* callMarkerKey, flipCursor), the dual write of InsertCall and the        *)
(* prefix/cursor listing of GetCalls, over a flat bucket that offers only  *)
(* put, get and an ascending prefix listing.                               *)
(*                                                                         *)
(* The source tree holds three successive variants of the package.  The    *)
(* model follows the latest one (key prefixes "c/", "m/", "l/", flipCursor,*)
(* getCallByKey); the earlier two are work in progress towards it.         *)
(*                                                                         *)
(* Strings are sequences of byte values (0..255), so that prefix tests,    *)
(* byte-order comparison and splitting on "/" are computed as the code     *)
(* and the bucket compute them.                                            *)
(***************************************************************************)
EXTENDS Integers, Sequences, FiniteSets, TLC

(***************************************************************************)
(* Bounds of the model.                                                    *)
(***************************************************************************)
\* times (milliseconds) range over 0..MaxTime
MaxTime == 1
\* number of InsertCall invocations in one behaviour
MaxInserts == 2
\* ids generated within one millisecond carry the counters 0..MaxCount
MaxCount == 1

(***************************************************************************)
(* Byte strings.                                                           *)
(***************************************************************************)
Slash == 47

callKeyPrefix == <<99, 47>>
callMarkerPrefix == <<109, 47>>
logKeyPrefix == <<108, 47>>

Min(a, b) == IF a < b THEN a ELSE b

\* byte-wise lexicographic order, the order of the bucket listing
LexLess(a, b) ==
    \E i \in 1..Len(b) :
        /\ i - 1 <= Len(a)
        /\ \A j \in 1..(i - 1) : a[j] = b[j]
        /\ (i > Len(a) \/ a[i] < b[i])

HasPrefix(s, p) ==
    /\ Len(p) <= Len(s)
    /\ \A j \in 1..Len(p) : s[j] = p[j]

\* strings.Split(s, "/")
RECURSIVE SplitFrom(_, _, _)
SplitFrom(s, i, cur) ==
    IF i > Len(s) THEN <<cur>>
    ELSE IF s[i] = Slash THEN <<cur>> \o SplitFrom(s, i + 1, <<>>)
    ELSE SplitFrom(s, i + 1, Append(cur, s[i]))

Split(s) == SplitFrom(s, 1, <<>>)

(***************************************************************************)
(* base64.RawURLEncoding.EncodeToString: 3 bytes to 4 characters of the    *)
(* URL-safe alphabet, no padding.                                          *)
(***************************************************************************)
B64Char(n) ==
    IF n < 26 THEN 65 + n
    ELSE IF n < 52 THEN 97 + (n - 26)
    ELSE IF n < 62 THEN 48 + (n - 52)
    ELSE IF n = 62 THEN 45
    ELSE 95

RECURSIVE RawURLEncode(_)
RawURLEncode(s) ==
    IF Len(s) = 0 THEN <<>>
    ELSE IF Len(s) = 1 THEN
        << B64Char(s[1] \div 4), B64Char((s[1] % 4) * 16) >>
    ELSE IF Len(s) = 2 THEN
        LET n == s[1] * 256 + s[2]
        IN  << B64Char(n \div 1024), B64Char((n \div 16) % 64),
               B64Char((n % 16) * 4) >>
    ELSE
        LET n == s[1] * 65536 + s[2] * 256 + s[3]
        IN  << B64Char(n \div 262144), B64Char((n \div 4096) % 64),
               B64Char((n \div 64) % 64), B64Char(n % 64) >>
            \o RawURLEncode(SubSeq(s, 4, Len(s)))

(***************************************************************************)
(* Package id (not part of the sources at hand): an Id is a 16 byte        *)
(* buffer whose first 6 bytes carry the millisecond time, big endian.      *)
(* String() renders it in 26 characters of a sortable base 32 alphabet,    *)
(* so the first 10 characters render exactly the 48 time bits.             *)
(* MarshalDescending is the order-reversing, length-preserving transform   *)
(* of the design: the byte-wise complement of the buffer.                  *)
(***************************************************************************)
IdSize == 16
EncodedSize == 26

Encoding ==
    << 48, 49, 50, 51, 52, 53, 54, 55, 56, 57,
       65, 66, 67, 68, 69, 70, 71, 72, 74, 75,
       77, 78, 80, 81, 82, 83, 84, 86, 87, 88, 89, 90 >>

\* bit k (1 = most significant) of the buffer preceded by two zero bits
IdBit(buf, k) ==
    IF k <= 2 THEN 0
    ELSE LET q == k - 3
         IN  (buf[(q \div 8) + 1] \div (2 ^ (7 - (q % 8)))) % 2

IdString(buf) ==
    [c \in 1..EncodedSize |->
        Encoding[ 16 * IdBit(buf, 5 * c - 4) + 8 * IdBit(buf, 5 * c - 3)
                + 4 * IdBit(buf, 5 * c - 2) + 2 * IdBit(buf, 5 * c - 1)
                + IdBit(buf, 5 * c) + 1 ]]

MarshalDescending(buf) == [i \in 1..Len(buf) |-> 255 - buf[i]]

\* flipCursor gone wrong: the id is left in ascending order
flipCursorAscending(oid) == oid

\* flipCursor gone wrong: only the time-carrying characters are kept
flipCursorTimeOnly(oid) ==
    [i \in 1..Len(oid) |-> IF i <= 10 THEN 255 - oid[i] ELSE 255]

\* var rid id.Id; copy(rid[:], oid); rid.MarshalDescending()[:len(oid)]
flipCursor(oid) ==
    IF oid = <<>> THEN <<>>
    ELSE LET rid == [i \in 1..IdSize |-> IF i <= Len(oid) THEN oid[i] ELSE 0]
         IN  SubSeq(MarshalDescending(rid), 1, Len(oid))

callKeyFlipped(app, id) == callKeyPrefix \o app \o <<Slash>> \o id

callKey(app, id) == callKeyFlipped(app, flipCursor(id))

\* callMarkerKey gone wrong: the path goes into the key unescaped
callMarkerKeyRawPath(app, path, id) ==
    callMarkerPrefix \o app \o <<Slash>> \o path \o <<Slash>> \o flipCursor(id)

callMarkerKey(app, path, id) ==
    callMarkerPrefix \o app \o <<Slash>> \o RawURLEncode(path)
        \o <<Slash>> \o flipCursor(id)

\* logKey gone wrong: the log is put among the calls
logKeyInCalls(appID, callID) == callKeyPrefix \o appID \o <<Slash>> \o callID

logKey(appID, callID) == logKeyPrefix \o appID \o <<Slash>> \o callID

(***************************************************************************)
(* Inputs.  Apps and paths are those of the examples: one app id is a      *)
(* string prefix of the other, and one path of the other.  A call id is    *)
(* the 10 time characters of an Id followed by one counter character, so   *)
(* it fits the 16 bytes flipCursor keeps.  The creation time of a call is  *)
(* a field of its own: InsertCall stores whatever call it is given.        *)
(***************************************************************************)
Times == 0..MaxTime

AppA1 == <<97, 49>>
AppA10 == <<97, 49, 48>>
Apps == {AppA1, AppA10}

PathF == <<47, 102>>
PathFG == <<47, 102, 47, 103>>
Paths == {PathF, PathFG}

\* buf[0] = byte(ms >> 40) ... buf[5] = byte(ms)
TimeBuf(ms) ==
    [i \in 1..IdSize |->
        IF i = 1 THEN ((ms \div 1048576) \div 1048576) % 256
        ELSE IF i = 2 THEN ((ms \div 65536) \div 65536) % 256
        ELSE IF i = 3 THEN (ms \div 16777216) % 256
        ELSE IF i = 4 THEN (ms \div 65536) % 256
        ELSE IF i = 5 THEN (ms \div 256) % 256
        ELSE IF i = 6 THEN ms % 256
        ELSE 0]

\* the time-carrying leading portion of the string form of an id
TimePrefixLen == 10
TimeTexts == [ms \in Times |-> SubSeq(IdString(TimeBuf(ms)), 1, TimePrefixLen)]
TimeText(ms) == TimeTexts[ms]

CallId(ms, n) == TimeText(ms) \o <<Encoding[n + 1]>>
CallIds == {CallId(t, n) : t \in Times, n \in 0..MaxCount}

\* the time embedded in a call id
IdTime(id) == CHOOSE t \in Times : SubSeq(id, 1, TimePrefixLen) = TimeText(t)

Calls == [id : CallIds, appID : Apps, path : Paths, createdAt : Times]

(***************************************************************************)
(* The bucket: a function from the keys present to the objects stored.     *)
(* An object is the JSON of a call (json.Marshal) or raw bytes: the empty  *)
(* body of a marker, the bytes of a log.                                   *)
(***************************************************************************)
NoCall == [id |-> <<>>, appID |-> <<>>, path |-> <<>>, createdAt |-> 0]

JSONObject(call) == [json |-> TRUE, call |-> call, raw |-> <<>>]
RawObject(bytes) == [json |-> FALSE, call |-> NoCall, raw |-> bytes]

\* an upload gone wrong: an object already at the key is kept
PutIfAbsent(st, key, obj) ==
    [k \in DOMAIN st \cup {key} |-> IF k \in DOMAIN st THEN st[k] ELSE obj]

\* UploadWithContext: the object replaces whatever is at the key
Put(st, key, obj) == [k \in DOMAIN st \cup {key} |-> IF k = key THEN obj ELSE st[k]]

EmptyBucket == [k \in {} |-> RawObject(<<>>)]

\* the errors of the package, by the name the design gives them
ErrNil == "nil"
ErrCallNotFound == "NotFound"
ErrCallLogNotFound == "LogNotFound"
ErrInvalidFilter == "InvalidFilter"
ErrInvalidKey == "InvalidKey"
ErrBackend == "BackendError"
ErrUnmarshal == "UnmarshalError"
\* an index out of range, which ends the process
ErrPanic == "panic"

\* getCallByKey gone wrong: every failure of the download reads as NotFound
getCallByKeyAllNotFound(st, key, ok) ==
    IF ~ok \/ key \notin DOMAIN st THEN [err |-> ErrCallNotFound, call |-> NoCall]
    ELSE IF ~st[key].json THEN [err |-> ErrUnmarshal, call |-> NoCall]
    ELSE [err |-> ErrNil, call |-> st[key].call]

\* DownloadWithContext, then json.Unmarshal; ok: the backend answers the
\* download (with the object, or with NoSuchKey), otherwise it fails
getCallByKey(st, key, ok) ==
    IF ~ok THEN [err |-> ErrBackend, call |-> NoCall]
    ELSE IF key \notin DOMAIN st THEN [err |-> ErrCallNotFound, call |-> NoCall]
    ELSE IF ~st[key].json THEN [err |-> ErrUnmarshal, call |-> NoCall]
    ELSE [err |-> ErrNil, call |-> st[key].call]

\* GetCall when the backend answers
GetCallOp(st, appID, callID) == getCallByKey(st, callKey(appID, callID), TRUE)

(***************************************************************************)
(* ListObjects of the bucket: the keys with the prefix, strictly after the *)
(* marker, in ascending byte order, at most maxKeys of them.               *)
(***************************************************************************)
RECURSIVE SortKeys(_)
SortKeys(S) ==
    IF S = {} THEN <<>>
    ELSE LET k == CHOOSE x \in S : \A y \in S \ {x} : LexLess(x, y)
         IN  <<k>> \o SortKeys(S \ {k})

ListObjects(st, prefix, marker, maxKeys) ==
    LET all == SortKeys({k \in DOMAIN st : HasPrefix(k, prefix) /\ LexLess(marker, k)})
    IN  SubSeq(all, 1, Min(maxKeys, Len(all)))

(***************************************************************************)
(* GetCalls.  A filter carries the app id, the path ("" for none), the     *)
(* time bounds (<<>> for the zero time, <<ms>> otherwise), the cursor      *)
(* ("" for none) and the page size.                                        *)
(***************************************************************************)
\* mid: the first 10 characters of the id built from FromTime
FilterMid(filter) ==
    IF filter.fromTime = <<>> THEN <<>> ELSE TimeText(filter.fromTime[1])

ListPrefix(filter) ==
    IF filter.path # <<>>
    THEN callMarkerKey(filter.appID, filter.path, FilterMid(filter))
    ELSE callKey(filter.appID, FilterMid(filter))

\* the marker gone wrong: the primary key of the cursor also when a path is
\* given
ListMarkerPrimaryKey(filter) ==
    IF filter.cursor = <<>> THEN <<>>
    ELSE callKey(filter.appID, filter.cursor)

ListMarker(filter) ==
    IF filter.cursor = <<>> THEN <<>>
    ELSE IF filter.path # <<>>
    THEN callMarkerKey(filter.appID, filter.path, filter.cursor)
    ELSE callKey(filter.appID, filter.cursor)

OptTimes == {<<>>} \cup {<<t>> : t \in Times}

NoFilter ==
    [appID |-> <<>>, path |-> <<>>, fromTime |-> <<>>, toTime |-> <<>>,
     cursor |-> <<>>, perPage |-> 0]

\* the filters queried: every combination for the apps, and the filter
\* without an app id
Filters ==
    [appID : Apps, path : Paths \cup {<<>>}, fromTime : OptTimes,
     toTime : OptTimes, cursor : CallIds \cup {<<>>}, perPage : 1..MaxInserts]
    \cup {[NoFilter EXCEPT !.perPage = MaxInserts]}

\* the number of "/"-separated fields of a key of the namespace listed
KeyFields(filter) == IF filter.path # <<>> THEN 4 ELSE 3

\* the app and the id taken from a listed key; the id stays as it is in the
\* key, descending-encoded
DecodeKey(filter, key) ==
    LET fields == Split(key)
    IN  [app |-> fields[2], id |-> fields[KeyFields(filter)]]

\* the check of the fields of a listed key: with a path the length is tested
\* first; without, fields[1] and fields[2] are read before the length is tested
KeyErrorAtLeast(filter, fields) ==
    IF Len(fields) < KeyFields(filter) THEN ErrInvalidKey ELSE ErrNil

KeyError(filter, fields) ==
    IF filter.path # <<>>
    THEN IF Len(fields) # 4 THEN ErrInvalidKey ELSE ErrNil
    ELSE IF Len(fields) < 3 THEN ErrPanic
    ELSE IF Len(fields) # 3 THEN ErrInvalidKey
    ELSE ErrNil

\* the tests of the record fetched against the time bounds of the filter
TooOldNever(filter, call) == FALSE

TooOld(filter, call) ==
    filter.fromTime # <<>> /\ call.createdAt < filter.fromTime[1]

TooNew(filter, call) ==
    filter.toTime # <<>> /\ ~(call.createdAt < filter.toTime[1])

\* GetCalls gone wrong: a record missing at fetch time is not skipped, the
\* empty call the fetch returned is taken
FetchSkippedUnlessMissing(err) == err \notin {ErrNil, ErrCallNotFound}

\* the test on the error of a fetch in the loop: any error, of whatever
\* kind, is logged and the entry left out
FetchSkipped(err) == err # ErrNil

\* the loop over result.Contents, from entry i on: the calls accumulated, the
\* (app, id) decoded from each key and the keys fetched
\* down: the keys whose download the backend fails
RECURSIVE ScanKeys(_, _, _, _, _, _)
ScanKeys(st, filter, down, keys, i, acc) ==
    IF i > Len(keys) THEN acc
    ELSE IF KeyError(filter, Split(keys[i])) # ErrNil
    THEN [acc EXCEPT !.err = KeyError(filter, Split(keys[i]))]
    ELSE
      LET d == DecodeKey(filter, keys[i])
          objectName == callKeyFlipped(d.app, d.id)
          got == getCallByKey(st, objectName, objectName \notin down)
          seen == [acc EXCEPT !.decoded = Append(@, d), !.gets = Append(@, objectName)]
      IN
      IF FetchSkipped(got.err)
      THEN ScanKeys(st, filter, down, keys, i + 1, seen)
      ELSE IF TooOld(filter, got.call)
      THEN ScanKeys(st, filter, down, keys, i + 1, seen)
      ELSE IF TooNew(filter, got.call)
      THEN seen
      ELSE ScanKeys(st, filter, down, keys, i + 1,
                    [seen EXCEPT !.calls = Append(@, got.call)])

\* the faults of the backend during one GetCalls: whether the list call is
\* answered, and the keys whose download fails
NoFaults == [listOk |-> TRUE, down |-> {}]

\* GetCalls gone wrong: the app id is not checked
GetCallsOpAnyApp(st, filter, faults) ==
    LET prefix == ListPrefix(filter)
        marker == ListMarker(filter)
        keys == ListObjects(st, prefix, marker, filter.perPage)
    IN  ScanKeys(st, filter, faults.down, keys, 1,
                 [calls |-> <<>>, err |-> ErrNil,
                  lists |-> << [prefix |-> prefix, marker |-> marker] >>,
                  listed |-> keys, decoded |-> <<>>, gets |-> <<>>])

\* the result of GetCalls: the calls, the error, and the backend calls made
\* (the prefix and marker of the list call, the keys listed, the keys fetched)
GetCallsOp(st, filter, faults) ==
    IF filter.appID = <<>>
    THEN [calls |-> <<>>, err |-> ErrInvalidFilter, lists |-> <<>>,
          listed |-> <<>>, decoded |-> <<>>, gets |-> <<>>]
    ELSE
      LET prefix == ListPrefix(filter)
          marker == ListMarker(filter)
          keys == ListObjects(st, prefix, marker, filter.perPage)
      IN  IF ~faults.listOk
          THEN [calls |-> <<>>, err |-> ErrBackend,
                lists |-> << [prefix |-> prefix, marker |-> marker] >>,
                listed |-> <<>>, decoded |-> <<>>, gets |-> <<>>]
          ELSE ScanKeys(st, filter, faults.down, keys, 1,
                        [calls |-> <<>>, err |-> ErrNil,
                         lists |-> << [prefix |-> prefix, marker |-> marker] >>,
                         listed |-> keys, decoded |-> <<>>, gets |-> <<>>])

(***************************************************************************)
(* The state: the bucket, the InsertCall invocations whose primary object  *)
(* is written and whose marker upload is still to come, the number of      *)
(* invocations so far, the outcome of the latest step, and the options the *)
(* operator gave in the query of the URL the store was made from.          *)
(***************************************************************************)
VARIABLES store, inflight, inserts, last, options

vars == <<store, inflight, inserts, last, options>>

\* New(u) reads the host, the user, the path and the "ssl" parameter of the
\* URL; whatever else the query asks for, such as the handling of a failed
\* marker upload, is kept nowhere in the store
MarkerPolicies == {"abort", "tolerate"}
Options == [markerPolicy : MarkerPolicies]

\* the outcome of a step: the operation, its argument (call or filter), the
\* backend call that failed in it ("none", "primary", "marker", "get",
\* "log", "list"), the log written or read, the keys whose download failed
\* during GetCalls, the keys of the uploads attempted, and its result
\* (r.calls, r.err) with the list and get calls it made
NoResult(err) ==
    [calls |-> <<>>, err |-> err, lists |-> <<>>, listed |-> <<>>,
     decoded |-> <<>>, gets |-> <<>>]

Outcome(op, call, filter, r) ==
    [op |-> op, call |-> call, filter |-> filter, fault |-> "none", log |-> <<>>,
     down |-> {}, puts |-> <<>>,
     calls |-> r.calls, err |-> r.err,
     lists |-> r.lists, listed |-> r.listed, decoded |-> r.decoded, gets |-> r.gets]

Init ==
    /\ store = EmptyBucket
    /\ inflight = {}
    /\ inserts = 0
    /\ options \in Options
    /\ last = Outcome("none", NoCall, NoFilter, NoResult(ErrNil))

\* the outcome of a step that attempted the upload of one key
Uploaded(op, call, key, err, fault) ==
    [Outcome(op, call, NoFilter, NoResult(err)) EXCEPT !.fault = fault, !.puts = <<key>>]

\* InsertCall gone wrong: the error of the first upload is ignored and the
\* marker upload follows all the same
InsertCallPrimaryErrIgnored(call, ok) ==
    /\ inserts < MaxInserts
    /\ inserts' = inserts + 1
    /\ UNCHANGED options
    /\ store' = IF ok THEN Put(store, callKey(call.appID, call.id), JSONObject(call))
                 ELSE store
    /\ inflight' = inflight \cup {call}
    /\ last' = Uploaded("InsertCall.primary", call, callKey(call.appID, call.id),
                        ErrNil, IF ok THEN "none" ELSE "primary")

\* InsertCall up to the first upload: the record goes to the primary key;
\* a failed upload returns the error and nothing more is written
InsertCallPrimary(call, ok) ==
    /\ inserts < MaxInserts
    /\ inserts' = inserts + 1
    /\ UNCHANGED options
    /\ IF ok
       THEN /\ store' = Put(store, callKey(call.appID, call.id), JSONObject(call))
            /\ inflight' = inflight \cup {call}
            /\ last' = Uploaded("InsertCall.primary", call,
                                callKey(call.appID, call.id), ErrNil, "none")
       ELSE /\ UNCHANGED <<store, inflight>>
            /\ last' = Uploaded("InsertCall", call, callKey(call.appID, call.id),
                                ErrBackend, "primary")

\* InsertCall gone wrong: the error of the marker upload is dropped
InsertCallMarkerErrDropped(call, ok) ==
    /\ call \in inflight
    /\ inflight' = inflight \ {call}
    /\ UNCHANGED <<inserts, options>>
    /\ store' = IF ok THEN Put(store, callMarkerKey(call.appID, call.path, call.id),
                               RawObject(<<>>))
                 ELSE store
    /\ last' = Uploaded("InsertCall", call,
                        callMarkerKey(call.appID, call.path, call.id),
                        ErrNil, IF ok THEN "none" ELSE "marker")

\* InsertCall gone wrong: a failed marker upload is attempted again
InsertCallMarkerRetry(call, ok) ==
    /\ call \in inflight
    /\ inflight' = IF ok THEN inflight \ {call} ELSE inflight
    /\ UNCHANGED <<inserts, options>>
    /\ store' = IF ok THEN Put(store, callMarkerKey(call.appID, call.path, call.id),
                               RawObject(<<>>))
                 ELSE store
    /\ last' = Uploaded(IF ok THEN "InsertCall" ELSE "InsertCall.retry", call,
                        callMarkerKey(call.appID, call.path, call.id),
                        ErrNil, IF ok THEN "none" ELSE "marker")

\* InsertCall from the second upload on: the empty marker object; a failed
\* (or cancelled) upload returns the error, the primary object stays
InsertCallMarker(call, ok) ==
    /\ call \in inflight
    /\ inflight' = inflight \ {call}
    /\ UNCHANGED <<inserts, options>>
    /\ IF ok
       THEN /\ store' = Put(store, callMarkerKey(call.appID, call.path, call.id),
                            RawObject(<<>>))
            /\ last' = Uploaded("InsertCall", call,
                                callMarkerKey(call.appID, call.path, call.id),
                                ErrNil, "none")
       ELSE /\ UNCHANGED store
            /\ last' = Uploaded("InsertCall", call,
                                callMarkerKey(call.appID, call.path, call.id),
                                ErrBackend, "marker")

\* Reads leave the bucket as it is, so a read that follows a read reaches no
\* state the first one did not: reads are taken after a step of InsertCall
\* (or at the start).
IsRead(op) == op \in {"GetCall", "GetCalls", "GetLog"}

GetCall(appID, callID, ok) ==
    /\ ~IsRead(last.op)
    /\ LET r == getCallByKey(store, callKey(appID, callID), ok)
       IN  last' = [Outcome("GetCall", [NoCall EXCEPT !.id = callID, !.appID = appID],
                            NoFilter,
                            [NoResult(r.err) EXCEPT
                                !.calls = IF r.err = ErrNil THEN <<r.call>> ELSE <<>>,
                                !.gets = <<callKey(appID, callID)>>])
                       EXCEPT !.fault = IF ok THEN "none" ELSE "get"]
    /\ UNCHANGED <<store, inflight, inserts, options>>

\* InsertLog: the log goes to the log key of the app and call id
InsertLog(appID, callID, callLog, ok) ==
    /\ IF ok
       THEN /\ store' = Put(store, logKey(appID, callID), RawObject(callLog))
            /\ last' = [Uploaded("InsertLog",
                                 [NoCall EXCEPT !.id = callID, !.appID = appID],
                                 logKey(appID, callID), ErrNil, "none")
                           EXCEPT !.log = callLog]
       ELSE /\ UNCHANGED store
            /\ last' = [Uploaded("InsertLog",
                                 [NoCall EXCEPT !.id = callID, !.appID = appID],
                                 logKey(appID, callID), ErrBackend, "log")
                           EXCEPT !.log = callLog]
    /\ UNCHANGED <<inflight, inserts, options>>

\* GetLog: the bytes at the log key; NoSuchKey is ErrCallLogNotFound, any
\* other failure of the download is returned as such
GetLogOp(st, appID, callID, ok) ==
    IF ~ok THEN [err |-> ErrBackend, log |-> <<>>]
    ELSE IF logKey(appID, callID) \notin DOMAIN st
    THEN [err |-> ErrCallLogNotFound, log |-> <<>>]
    ELSE [err |-> ErrNil, log |-> st[logKey(appID, callID)].raw]

GetLog(appID, callID, ok) ==
    /\ ~IsRead(last.op)
    /\ LET r == GetLogOp(store, appID, callID, ok)
       IN  last' = [Outcome("GetLog", [NoCall EXCEPT !.id = callID, !.appID = appID],
                            NoFilter,
                            [NoResult(r.err) EXCEPT !.gets = <<logKey(appID, callID)>>])
                       EXCEPT !.fault = IF ok THEN "none" ELSE "get", !.log = r.log]
    /\ UNCHANGED <<store, inflight, inserts, options>>

\* Another writer of the bucket puts an object of its own at a key
PutForeign(key) ==
    /\ key \notin DOMAIN store
    /\ store' = Put(store, key, RawObject(<<>>))
    /\ last' = Outcome("PutForeign", NoCall, NoFilter, NoResult(ErrNil))
    /\ UNCHANGED <<inflight, inserts, options>>

\* GetCalls gone wrong: the keys whose record was not fetched are taken out
\* of the bucket
GetCallsPruning(filter, faults) ==
    /\ ~IsRead(last.op)
    /\ LET r == GetCallsOp(store, filter, faults)
           gone == {r.listed[n] : n \in
                       {m \in 1..Len(r.gets) :
                           FetchSkipped(getCallByKey(store, r.gets[m],
                                                     r.gets[m] \notin faults.down).err)}}
       IN  /\ last' = [Outcome("GetCalls", NoCall, filter, r)
                          EXCEPT !.fault = IF ~faults.listOk THEN "list"
                                           ELSE IF faults.down # {} THEN "get"
                                           ELSE "none",
                                 !.down = faults.down]
           /\ store' = [k \in DOMAIN store \ gone |-> store[k]]
    /\ UNCHANGED <<inflight, inserts, options>>

GetCalls(filter, faults) ==
    /\ ~IsRead(last.op)
    /\ LET r == GetCallsOp(store, filter, faults)
       IN  last' = [Outcome("GetCalls", NoCall, filter, r)
                       EXCEPT !.fault = IF ~faults.listOk THEN "list"
                                        ELSE IF faults.down # {} THEN "get"
                                        ELSE "none",
                              !.down = faults.down]
    /\ UNCHANGED <<store, inflight, inserts, options>>

(***************************************************************************)
(* Two specifications over the same actions.  Spec: calls of both apps     *)
(* and both paths, one id per millisecond, created at the time their id    *)
(* embeds, listed with every filter that has no time bound.  SpecTime:     *)
(* calls of one app and one path, several ids per millisecond, created at  *)
(* any time, listed with every filter, time bounds included.               *)
(***************************************************************************)
PlainIds == {CallId(t, 0) : t \in Times}
PlainCalls == {c \in Calls : c.id \in PlainIds /\ c.createdAt = IdTime(c.id)}
PlainFilters ==
    {f \in Filters : /\ f.fromTime = <<>> /\ f.toTime = <<>>
                     /\ f.cursor \in PlainIds \cup {<<>>}}

Next ==
    \/ \E call \in PlainCalls, ok \in BOOLEAN : InsertCallPrimary(call, ok)
    \/ \E call \in inflight, ok \in BOOLEAN : InsertCallMarker(call, ok)
    \/ \E appID \in Apps, callID \in PlainIds, ok \in BOOLEAN : GetCall(appID, callID, ok)
    \/ \E filter \in PlainFilters : GetCalls(filter, NoFaults)

\* the store made from a URL that asks for nothing New does not know
InitPlain == Init /\ options.markerPolicy = "abort"

Spec == InitPlain /\ [][Next]_vars

TimeCalls == {c \in Calls : c.appID = AppA1 /\ c.path = PathF}
TimeFilters ==
    {f \in Filters : f.appID \in {AppA1, <<>>} /\ f.path \in {PathF, <<>>}}

NextTime ==
    \/ \E call \in TimeCalls, ok \in BOOLEAN : InsertCallPrimary(call, ok)
    \/ \E call \in inflight, ok \in BOOLEAN : InsertCallMarker(call, ok)
    \/ \E callID \in CallIds, ok \in BOOLEAN : GetCall(AppA1, callID, ok)
    \/ \E filter \in TimeFilters : GetCalls(filter, NoFaults)

SpecTime == InitPlain /\ [][NextTime]_vars

(***************************************************************************)
(* A third specification, the bucket with what another writer leaves in    *)
(* it: calls of app a1 and foreign objects at keys inside the namespaces    *)
(* GetCalls lists, listed with the filters that have no time bound, the    *)
(* backend failing the list call or one download.                          *)
(***************************************************************************)
\* "c/a1/x/y": one field too many for the calls of a1; sorts before every call
ForeignCallKey == callKeyPrefix \o AppA1 \o <<Slash, 120, Slash, 121>>
\* "m/a1/L2Y/", a byte that sorts after every flipped id, "/y": one field
\* too many for the markers of a1 and /f
ForeignMarkerKey ==
    callMarkerPrefix \o AppA1 \o <<Slash>> \o RawURLEncode(PathF)
        \o <<Slash, 250, Slash, 121>>
\* "c/a1/zz": the fields of a call key, the object is no call
ForeignObjectKey == callKeyPrefix \o AppA1 \o <<Slash, 122, 122>>
\* the id GetCall is given to read the object at "c/a1/zz"
ForeignId == flipCursor(<<122, 122>>)
\* the marker of a1, /f and the newest call id, whatever is at its primary
\* key: a marker whose record is gone, or not yet there
ForeignDanglingKey == callMarkerKey(AppA1, PathF, CallId(MaxTime, 0))
ForeignKeys ==
    {ForeignCallKey, ForeignMarkerKey, ForeignObjectKey, ForeignDanglingKey}

\* logs are written for the first call id and read for every call id
LogIds == {CallId(0, 0)}
LogTexts == {<<104, 105>>, <<>>}

BucketCalls == {c \in PlainCalls : c.appID = AppA1}
\* the backend answers; or the list call fails; or the download of one of
\* the objects in the calls namespace fails
BucketFaults(st) ==
    {NoFaults, [NoFaults EXCEPT !.listOk = FALSE]}
        \cup {[NoFaults EXCEPT !.down = {k}] :
                  k \in {j \in DOMAIN st : HasPrefix(j, callKeyPrefix)}}

BucketFilters == {f \in PlainFilters : f.appID \in {AppA1, <<>>}}

NextBucket ==
    \/ \E call \in BucketCalls, ok \in BOOLEAN : InsertCallPrimary(call, ok)
    \/ \E call \in inflight, ok \in BOOLEAN : InsertCallMarker(call, ok)
    \/ \E key \in ForeignKeys : PutForeign(key)
    \/ \E callID \in PlainIds \cup {ForeignId}, ok \in BOOLEAN :
           GetCall(AppA1, callID, ok)
    \/ \E callID \in PlainIds, ok \in BOOLEAN : GetLog(AppA1, callID, ok)
    \/ \E filter \in BucketFilters, faults \in BucketFaults(store) :
           GetCalls(filter, faults)

SpecBucket == InitPlain /\ [][NextBucket]_vars

(***************************************************************************)
(* A fourth specification, calls and logs side by side: calls of app a1    *)
(* and logs of the first call id, the store made from a URL with any of    *)
(* the options.                                                            *)
(***************************************************************************)
NextLog ==
    \/ \E call \in BucketCalls, ok \in BOOLEAN : InsertCallPrimary(call, ok)
    \/ \E call \in inflight, ok \in BOOLEAN : InsertCallMarker(call, ok)
    \/ \E callID \in LogIds, callLog \in LogTexts, ok \in BOOLEAN :
           InsertLog(AppA1, callID, callLog, ok)
    \/ \E callID \in PlainIds, ok \in BOOLEAN : GetCall(AppA1, callID, ok)
    \/ \E callID \in PlainIds, ok \in BOOLEAN : GetLog(AppA1, callID, ok)
    \/ \E filter \in BucketFilters : GetCalls(filter, NoFaults)

SpecLog == Init /\ [][NextLog]_vars

(***************************************************************************)
(* Vocabulary of the properties.                                           *)
(***************************************************************************)
Range(seq) == {seq[i] : i \in 1..Len(seq)}

\* GetCalls has just run for an app
Listed == last.op = "GetCalls" /\ last.filter.appID # <<>>

\* the page size covers every key a listing can meet
Covering(filter) == filter.perPage = MaxInserts

\* the call records GetCalls can reach for the filter's app (and path): the
\* records at the primary keys of the app, through a marker of the path
\* when a path is given
Reachable(st, filter) ==
    {c \in Calls :
        /\ c.appID = filter.appID
        /\ callKey(c.appID, c.id) \in DOMAIN st
        /\ st[callKey(c.appID, c.id)] = JSONObject(c)
        /\ filter.path # <<>> =>
               callMarkerKey(filter.appID, filter.path, c.id) \in DOMAIN st}

\* the pages a caller collects, the id of the last record of a page being
\* the cursor of the next call, until a page is empty
RECURSIVE Pages(_, _, _)
Pages(st, filter, fuel) ==
    LET r == GetCallsOp(st, filter, NoFaults)
    IN  IF r.calls = <<>> \/ fuel = 0 THEN <<>>
        ELSE r.calls \o Pages(st, [filter EXCEPT !.cursor = r.calls[Len(r.calls)].id],
                              fuel - 1)

OneListing(st, filter) ==
    GetCallsOp(st, [filter EXCEPT !.perPage = MaxInserts], NoFaults).calls

(***************************************************************************)
(* C1. Pagination completeness: for calls of one app (with or without a    *)
(* path) and no toTime bound, the pages collected by passing the id of     *)
(* the last record of each page as the next cursor, until a page is        *)
(* empty, concatenate to exactly the one listing whose page size covers    *)
(* all records.  Stated of the first page GetCalls has just returned.      *)
(* Violated when fromTime is set: a page whose records are all older than  *)
(* fromTime is empty although later keys hold records in range.            *)
(***************************************************************************)
C1_PaginationComplete ==
    (Listed /\ last.filter.cursor = <<>> /\ last.filter.toTime = <<>>)
        => Pages(store, last.filter, MaxInserts + 1) = OneListing(store, last.filter)

(***************************************************************************)
(* C2. Newest-first ordering: the calls GetCalls returns are in strictly   *)
(* descending byte order of their ids.                                     *)
(***************************************************************************)
C2_NewestFirst ==
    Listed =>
        \A i \in 1..Len(last.calls) : \A j \in 1..Len(last.calls) :
            i < j => LexLess(last.calls[j].id, last.calls[i].id)

\* two calls of app a1 under path /f, listed newer id first
C2_Witness ==
    /\ Listed
    /\ last.filter.path = PathF
    /\ Len(last.calls) = 2
    /\ LexLess(last.calls[2].id, last.calls[1].id)

(***************************************************************************)
(* C3. Time inclusion: with no fromTime (no prefix pruning), no cursor and *)
(* a page size that covers all calls, a call of the listed app (and path)  *)
(* is returned if and only if its creation time is before toTime, when     *)
(* toTime is set.  Violated: the first record at or after toTime ends the  *)
(* loop, and the older records behind it are not returned.                 *)
(***************************************************************************)
C3_TimeInclusion ==
    (Listed /\ last.filter.fromTime = <<>> /\ last.filter.cursor = <<>>
            /\ Covering(last.filter))
        => \A c \in Reachable(store, last.filter) :
               c \in Range(last.calls)
                   <=> (last.filter.toTime = <<>> \/ c.createdAt < last.filter.toTime[1])

(***************************************************************************)
(* C4. Time-seek pruning excludes no correct record: with fromTime set, no *)
(* cursor and a covering page size, every call of the app (and path)       *)
(* whose id embeds its creation time and whose creation time is at or      *)
(* after fromTime (and before toTime if set) is among the keys listed and  *)
(* among the calls returned.  Violated: the time-derived id is used as a   *)
(* list prefix, which keeps only the ids of that very millisecond.         *)
(***************************************************************************)
C4_PruningKeepsInRange ==
    (Listed /\ last.filter.fromTime # <<>> /\ last.filter.cursor = <<>>
            /\ Covering(last.filter))
        => \A c \in Reachable(store, last.filter) :
               ( /\ IdTime(c.id) = c.createdAt
                 /\ c.createdAt >= last.filter.fromTime[1]
                 /\ (last.filter.toTime = <<>> \/ c.createdAt < last.filter.toTime[1]) )
               => /\ \E k \in Range(last.listed) : HasPrefix(k, ListPrefix(last.filter))
                                                    /\ Split(k)[Len(Split(k))] = flipCursor(c.id)
                  /\ c \in Range(last.calls)

\* the keys listed and the keys fetched are keys of the app (and path) asked for
C5_ListedInNamespace ==
    Listed =>
        /\ \A k \in Range(last.listed) :
               \E id \in CallIds :
                   k = IF last.filter.path # <<>>
                       THEN callMarkerKey(last.filter.appID, last.filter.path, id)
                       ELSE callKey(last.filter.appID, id)
        /\ \A n \in 1..Len(last.gets) :
               \E id \in CallIds : last.gets[n] = callKey(last.filter.appID, id)

(***************************************************************************)
(* C5. Namespace isolation: the keys GetCalls lists are keys of exactly    *)
(* the app (and path) asked for, also when another app id or path has the  *)
(* requested one as a string prefix, and every record returned carries     *)
(* that app id and, when a path is given, that path.  Violated in its      *)
(* last part: a marker of the path leads to the record at the primary key, *)
(* which a later InsertCall of the same id under another path replaced.    *)
(***************************************************************************)
C5_NamespaceIsolation ==
    /\ C5_ListedInNamespace
    /\ Listed =>
           \A n \in 1..Len(last.calls) :
               /\ last.calls[n].appID = last.filter.appID
               /\ last.filter.path # <<>> => last.calls[n].path = last.filter.path

\* the listing of an app (and path) without cursor or time bound
VisibilityFilter(appID, path) ==
    [NoFilter EXCEPT !.appID = appID, !.path = path, !.perPage = MaxInserts]

(***************************************************************************)
(* C6. Insert-then-list visibility: when InsertCall has returned success,  *)
(* the primary key and the marker key of the call are in the bucket, and   *)
(* the listing of the call's app, and the listing of its app and path      *)
(* (no cursor, no time bound, covering page size), hold the record stored  *)
(* at the call's primary key, which carries the call's id; and a listing   *)
(* GetCalls has just made holds every record whose keys are in its         *)
(* namespace.                                                              *)
(***************************************************************************)
C6_InsertThenList ==
    /\ (last.op = "InsertCall" /\ last.err = ErrNil) =>
          LET c == last.call
              k == callKey(c.appID, c.id)
          IN  /\ k \in DOMAIN store
              /\ callMarkerKey(c.appID, c.path, c.id) \in DOMAIN store
              /\ store[k].json /\ store[k].call.id = c.id
              /\ store[k].call \in
                     Range(GetCallsOp(store, VisibilityFilter(c.appID, <<>>), NoFaults).calls)
              /\ store[k].call \in
                     Range(GetCallsOp(store, VisibilityFilter(c.appID, c.path), NoFaults).calls)
    /\ (Listed /\ last.filter.cursor = <<>> /\ Covering(last.filter)
               /\ last.filter.fromTime = <<>> /\ last.filter.toTime = <<>>) =>
          Reachable(store, last.filter) \subseteq Range(last.calls)

\* a path-scoped listing that returned a call whose InsertCall completed
C6_Witness ==
    /\ Listed /\ last.filter.path = PathFG /\ Covering(last.filter)
    /\ last.filter.cursor = <<>>
    /\ Len(last.calls) = 1
    /\ inflight = {}
    /\ callMarkerKey(last.filter.appID, PathFG, last.calls[1].id) \in DOMAIN store

(***************************************************************************)
(* C7. GetCalls with an empty app id returns the InvalidFilter error       *)
(* before any backend access: no list call, no get call, no records.       *)
(***************************************************************************)
C7_EmptyAppRejected ==
    (last.op = "GetCalls" /\ last.filter.appID = <<>>) =>
        /\ last.err = ErrInvalidFilter
        /\ last.lists = <<>>
        /\ last.listed = <<>>
        /\ last.gets = <<>>
        /\ last.calls = <<>>

\* the filter without app id, queried of a bucket that holds calls
C7_Witness ==
    /\ last.op = "GetCalls" /\ last.filter.appID = <<>>
    /\ last.err = ErrInvalidFilter
    /\ DOMAIN store # {}

(***************************************************************************)
(* C8. Marker implies primary: in every reachable state, whatever the      *)
(* interleaving of InsertCall invocations and whichever upload fails or    *)
(* is cancelled, every marker key in the bucket has the primary key of     *)
(* its app and id in the bucket; and an invocation that is about to        *)
(* upload its marker has its primary key in the bucket.                    *)
(***************************************************************************)
C8_MarkerImpliesPrimary ==
    /\ \A k \in DOMAIN store :
           HasPrefix(k, callMarkerPrefix) =>
               LET fields == Split(k)
               IN  /\ Len(fields) = 4
                   /\ callKeyFlipped(fields[2], fields[4]) \in DOMAIN store
    /\ \A c \in inflight : callKey(c.appID, c.id) \in DOMAIN store

\* two invocations interleaved: one has its marker written, the other failed
\* its marker upload and left its primary record alone
C8_Witness ==
    /\ last.op = "InsertCall" /\ last.err = ErrBackend
    /\ callKey(last.call.appID, last.call.id) \in DOMAIN store
    /\ callMarkerKey(last.call.appID, last.call.path, last.call.id) \notin DOMAIN store
    /\ \E k \in DOMAIN store : HasPrefix(k, callMarkerPrefix)

\* the primary-key encoder is injective and flipCursor keeps the length
KeysDistinct ==
    \A a1 \in Apps, a2 \in Apps, i1 \in CallIds, i2 \in CallIds :
        /\ Len(flipCursor(i1)) = Len(i1)
        /\ (a1 # a2 \/ i1 # i2) => callKey(a1, i1) # callKey(a2, i2)

\* the step is one of InsertCall
InsertStep == last'.op \in {"InsertCall.primary", "InsertCall"}

EncodedKey(filter, id) ==
    IF filter.path # <<>>
    THEN callMarkerKey(filter.appID, filter.path, id)
    ELSE callKey(filter.appID, id)

\* every key listed was decoded and fetched
AllDecoded == last.err = ErrNil /\ Len(last.decoded) = Len(last.listed)
                                /\ Len(last.gets) = Len(last.listed)

(***************************************************************************)
(* C10. Key round trip.  As claimed: every key GetCalls lists, produced by *)
(* the primary-key encoder from (app, id), or by the marker-key encoder    *)
(* from (app, path, id) for a path containing the separator, decodes to    *)
(* exactly (app, id), and the record is fetched at the primary key of      *)
(* (app, id).  Violated: the id decoded is the descending-encoded one.     *)
(***************************************************************************)
C10_KeyRoundTrip ==
    Listed =>
        /\ AllDecoded
        /\ \A n \in 1..Len(last.listed) :
               \E id \in CallIds :
                   /\ last.listed[n] = EncodedKey(last.filter, id)
                   /\ last.decoded[n] = [app |-> last.filter.appID, id |-> id]
                   /\ last.gets[n] = callKey(last.filter.appID, id)

(***************************************************************************)
(* C10 amended: every key GetCalls lists decodes to the app and to the     *)
(* descending encoding of the id (the id is not decoded back), and the     *)
(* record is fetched at exactly the primary key under which InsertCall     *)
(* stored it.                                                              *)
(***************************************************************************)
C10_KeyRoundTripFlipped ==
    Listed =>
        /\ AllDecoded
        /\ \A n \in 1..Len(last.listed) :
               \E id \in CallIds :
                   /\ last.listed[n] = EncodedKey(last.filter, id)
                   /\ last.decoded[n] = [app |-> last.filter.appID, id |-> flipCursor(id)]
                   /\ last.gets[n] = callKey(last.filter.appID, id)
                   /\ last.gets[n] \in DOMAIN store

\* markers of a path that contains the separator, decoded and fetched
C10_Witness ==
    /\ Listed /\ last.filter.path = PathFG
    /\ Len(last.listed) = 2
    /\ Len(last.calls) = 2

\* the ids compared: the call ids, and the time-only ids GetCalls derives
OrderIds == CallIds \cup {TimeText(t) : t \in Times}

C12_PrimaryFailureAborts ==
    [][ last'.fault = "primary" =>
            /\ last'.op = "InsertCall"
            /\ last'.err # ErrNil
            /\ store' = store
            /\ inflight' = inflight ]_vars

\* a failed primary upload beside the stored call of another invocation:
\* the call of the failed one has neither key
C12_Witness ==
    /\ last.fault = "primary" /\ last.op = "InsertCall" /\ last.err = ErrBackend
    /\ DOMAIN store # {}
    /\ callKey(last.call.appID, last.call.id) \notin DOMAIN store
    /\ callMarkerKey(last.call.appID, last.call.path, last.call.id) \notin DOMAIN store
    /\ last.call \notin inflight

(***************************************************************************)
(* C13. When the primary upload of InsertCall succeeded and the marker     *)
(* upload fails, InsertCall returns an error (the failure is not dropped), *)
(* GetCall of the call's app and id returns the record stored, the         *)
(* listing of the app without a path holds it, and the listing of the app  *)
(* and the call's path holds it exactly when a marker of that app, path    *)
(* and id is in the bucket (written by another invocation).                *)
(***************************************************************************)
C13_MarkerFailureObservable ==
    last.fault = "marker" =>
        LET c == last.call
            k == callKey(c.appID, c.id)
        IN  /\ last.op = "InsertCall"
            /\ last.err # ErrNil
            /\ k \in DOMAIN store
            /\ GetCallOp(store, c.appID, c.id).err = ErrNil
            /\ GetCallOp(store, c.appID, c.id).call.id = c.id
            /\ store[k].call \in
                   Range(GetCallsOp(store, VisibilityFilter(c.appID, <<>>), NoFaults).calls)
            /\ store[k].call \in
                   Range(GetCallsOp(store, VisibilityFilter(c.appID, c.path), NoFaults).calls)
               <=> callMarkerKey(c.appID, c.path, c.id) \in DOMAIN store

\* the marker upload failed: the call is found by id and in the listing of
\* the app, and the listing of its path misses it
C13_Witness ==
    /\ last.fault = "marker" /\ last.err = ErrBackend
    /\ GetCallOp(store, last.call.appID, last.call.id).call = last.call
    /\ last.call \in
           Range(GetCallsOp(store, VisibilityFilter(last.call.appID, <<>>), NoFaults).calls)
    /\ last.call \notin
           Range(GetCallsOp(store, VisibilityFilter(last.call.appID, last.call.path), NoFaults).calls)

(***************************************************************************)
(* C14. The handling of a failed marker upload follows the configuration:  *)
(* when the store is configured to abort, InsertCall returns an error, and *)
(* when it is configured to tolerate, InsertCall returns success.          *)
(* Violated: InsertCall reads no configuration and always returns the      *)
(* error.                                                                  *)
(***************************************************************************)
C14_PolicySelectable ==
    last.fault = "marker" =>
        /\ options.markerPolicy = "abort" => last.err # ErrNil
        /\ options.markerPolicy = "tolerate" => last.err = ErrNil

\* the key has not the number of fields of the namespace listed
Malformed(filter, key) == Len(Split(key)) # KeyFields(filter)

ReturnedCursor(calls) == IF calls = <<>> THEN <<>> ELSE calls[Len(calls)].id

(***************************************************************************)
(* C16. When GetCalls has processed a key, what it returns gives the id    *)
(* of the last key processed as the next cursor, also when the page is     *)
(* short or the last entries were skipped.  Violated: only the calls are   *)
(* returned, and a key whose record was skipped or that stopped the scan   *)
(* leaves no trace in them.                                                *)
(***************************************************************************)
C16_ReturnsNextCursor ==
    (Listed /\ last.err = ErrNil /\ last.decoded # <<>>) =>
        /\ ReturnedCursor(last.calls) # <<>>
        /\ flipCursor(ReturnedCursor(last.calls)) = last.decoded[Len(last.decoded)].id

(***************************************************************************)
(* C17. GetCall returns ErrCallNotFound, and GetLog ErrCallLogNotFound,    *)
(* exactly when the backend answers the download and the key asked for is  *)
(* not in the bucket; a download that fails otherwise returns another      *)
(* error, never NotFound and never success; and a log that is in the       *)
(* bucket is returned as stored.                                           *)
(***************************************************************************)
C17_NotFoundIffAbsent ==
    /\ last.op = "GetCall" =>
           /\ last.gets = <<callKey(last.call.appID, last.call.id)>>
           /\ last.fault = "none" =>
                  (last.err = ErrCallNotFound <=> last.gets[1] \notin DOMAIN store)
           /\ last.fault # "none" =>
                  last.err \notin {ErrNil, ErrCallNotFound, ErrCallLogNotFound}
    /\ last.op = "GetLog" =>
           /\ last.gets = <<logKey(last.call.appID, last.call.id)>>
           /\ last.fault = "none" =>
                  /\ last.err = ErrCallLogNotFound <=> last.gets[1] \notin DOMAIN store
                  /\ last.gets[1] \in DOMAIN store =>
                         last.err = ErrNil /\ last.log = store[last.gets[1]].raw
           /\ last.fault # "none" =>
                  last.err \notin {ErrNil, ErrCallNotFound, ErrCallLogNotFound}

\* the download of a call that is in the bucket fails: a backend error
C17_Witness ==
    /\ last.op = "GetCall" /\ last.fault = "get"
    /\ last.gets[1] \in DOMAIN store
    /\ last.err = ErrBackend
    /\ \E i \in PlainIds : logKey(AppA1, i) \in DOMAIN store

(***************************************************************************)
(* C18. Last writer wins: the step that uploads the primary record of a    *)
(* call makes GetCall of its app and id return that call, and leaves every *)
(* other object of the bucket as it was; every other step, the marker      *)
(* upload included, leaves what GetCall returns for every app and id as it *)
(* was and takes no key and no record away.  So GetCall returns the call   *)
(* whose primary upload was applied last, whatever the interleaving.       *)
(***************************************************************************)
C18_LastWriterWins ==
    [][ /\ DOMAIN store \subseteq DOMAIN store'
        /\ \A k \in DOMAIN store : store[k].json => store'[k].json
        /\ last'.op = "InsertCall.primary" =>
               LET k == callKey(last'.call.appID, last'.call.id)
               IN  /\ GetCallOp(store', last'.call.appID, last'.call.id)
                          = [err |-> ErrNil, call |-> last'.call]
                   /\ \A j \in DOMAIN store' \ {k} :
                          j \in DOMAIN store /\ store'[j] = store[j]
        /\ last'.op # "InsertCall.primary" =>
               /\ \A a \in Apps, i \in CallIds :
                      GetCallOp(store', a, i) = GetCallOp(store, a, i)
               /\ \A j \in DOMAIN store : store'[j] = store[j] ]_vars

\* a second InsertCall of the same app and id, under another path, has
\* replaced the record of the first, whose marker is in the bucket
C18_Witness ==
    /\ last.op = "InsertCall.primary"
    /\ inserts = 2
    /\ GetCallOp(store, last.call.appID, last.call.id).call = last.call
    /\ \E p \in Paths \ {last.call.path} :
           callMarkerKey(last.call.appID, p, last.call.id) \in DOMAIN store

\* the root of the namespace a filter lists
NamespaceRoot(filter) ==
    IF filter.path # <<>>
    THEN callMarkerPrefix \o filter.appID \o <<Slash>> \o RawURLEncode(filter.path)
             \o <<Slash>>
    ELSE callKeyPrefix \o filter.appID \o <<Slash>>

(***************************************************************************)
(* C19. Cursor translation: with a cursor, the marker GetCalls passes to   *)
(* the listing is the key of the cursor id in the namespace listed (the    *)
(* primary key without a path, the marker key with one), so it begins      *)
(* with the root of that namespace; every key listed sorts strictly after  *)
(* it, and every call returned has an id strictly older than the cursor,   *)
(* the cursor's own record never among them.  Without a cursor the marker  *)
(* is empty.                                                               *)
(***************************************************************************)
C19_CursorExclusive ==
    Listed =>
        LET marker == last.lists[1].marker
        IN  IF last.filter.cursor = <<>> THEN marker = <<>>
            ELSE /\ marker = EncodedKey(last.filter, last.filter.cursor)
                 /\ HasPrefix(marker, NamespaceRoot(last.filter))
                 /\ \A n \in 1..Len(last.listed) :
                        /\ LexLess(marker, last.listed[n])
                        /\ HasPrefix(last.listed[n], NamespaceRoot(last.filter))
                 /\ \A n \in 1..Len(last.calls) :
                        /\ last.calls[n].id # last.filter.cursor
                        /\ LexLess(last.calls[n].id, last.filter.cursor)

\* the listing of a path resumed after a cursor whose own marker is in the
\* bucket: the older call is returned
C19_Witness ==
    /\ Listed /\ last.filter.path = PathF /\ last.filter.cursor # <<>>
    /\ callMarkerKey(last.filter.appID, PathF, last.filter.cursor) \in DOMAIN store
    /\ Len(last.calls) = 1
    /\ LexLess(last.calls[1].id, last.filter.cursor)

\* the records at the keys GetCalls fetched, in the order fetched
Fetched == [n \in 1..Len(last.gets) |-> store[last.gets[n]].call]

\* the record is at or after the toTime of the latest filter
AtOrAfterToTime(call) ==
    last.filter.toTime # <<>> /\ call.createdAt >= last.filter.toTime[1]

\* the record is before the fromTime of the latest filter
BeforeFromTime(call) ==
    last.filter.fromTime # <<>> /\ call.createdAt < last.filter.fromTime[1]

\* the record passes both time bounds of the latest filter
InTimeBounds(call) == ~BeforeFromTime(call) /\ ~AtOrAfterToTime(call)

(***************************************************************************)
(* C20. Time-filter soundness: no call GetCalls returns is created before  *)
(* fromTime (when set) or at or after toTime (when set).  A record before  *)
(* fromTime is skipped and the scan goes on; the first record fetched that *)
(* is not before fromTime and is at or after toTime ends the scan; the     *)
(* calls returned are the records fetched that pass both bounds, in order. *)
(***************************************************************************)
C20_TimeFilterSound ==
    (Listed /\ last.err = ErrNil) =>
        /\ \A n \in 1..Len(last.calls) : InTimeBounds(last.calls[n])
        /\ \A n \in 1..Len(last.gets) : last.gets[n] \in DOMAIN store
        /\ last.calls = SelectSeq(Fetched, InTimeBounds)
        /\ \A n \in 1..Len(last.gets) :
               (~BeforeFromTime(Fetched[n]) /\ AtOrAfterToTime(Fetched[n]))
                   => n = Len(last.gets)
        /\ (\A n \in 1..Len(last.gets) :
                BeforeFromTime(Fetched[n]) \/ ~AtOrAfterToTime(Fetched[n]))
               => Len(last.gets) = Len(last.listed)

\* of two records fetched the first, older than fromTime, is skipped and
\* the second is returned
C20_Witness ==
    /\ Listed /\ last.filter.fromTime # <<>>
    /\ Len(last.gets) = 2
    /\ BeforeFromTime(Fetched[1])
    /\ last.calls = <<Fetched[2]>>

\* the error of the fetch of a key during the latest GetCalls
FetchErr(key) == getCallByKey(store, key, key \notin last.down).err

(***************************************************************************)
(* C21. During GetCalls a fetch of a listed record that fails with         *)
(* something else than NotFound, a failure of the backend or an object     *)
(* that is no call, makes GetCalls return that error.  Violated: the loop  *)
(* logs every error of the fetch and goes on to the next key, and GetCalls *)
(* returns the rest with a nil error.                                      *)
(***************************************************************************)
C21_FetchFailurePropagated ==
    Listed =>
        \A n \in 1..Len(last.gets) :
            FetchErr(last.gets[n]) \in {ErrBackend, ErrUnmarshal} =>
                last.err = FetchErr(last.gets[n])

\* the records of the keys fetched by the latest GetCalls whose fetch gave a
\* record, in the order fetched
RECURSIVE FetchedOk(_)
FetchedOk(n) ==
    IF n = 0 THEN <<>>
    ELSE IF FetchErr(last.gets[n]) = ErrNil
         THEN Append(FetchedOk(n - 1), store[last.gets[n]].call)
         ELSE FetchedOk(n - 1)

(***************************************************************************)
(* C22. During GetCalls a listed key whose record is missing at fetch time *)
(* is skipped and the listing continues: when every listed key is well     *)
(* formed and the list call was answered, GetCalls fetches every listed    *)
(* key, returns no error, and returns the records of the keys whose fetch  *)
(* gave a record, all of them and in the order listed (the filters here    *)
(* have no time bound).                                                    *)
(***************************************************************************)
C22_MissingRecordSkipped ==
    ( /\ Listed
      /\ last.fault # "list"
      /\ \A n \in 1..Len(last.listed) : ~Malformed(last.filter, last.listed[n]) )
    => /\ last.err = ErrNil
       /\ Len(last.gets) = Len(last.listed)
       /\ last.calls = FetchedOk(Len(last.gets))

\* the markers of /f listed: the marker whose record is missing comes first
\* and is skipped, the record of the marker after it is returned
C22_Witness ==
    /\ Listed /\ last.filter.path = PathF /\ last.fault = "none"
    /\ Len(last.listed) = 2
    /\ last.listed[1] = ForeignDanglingKey
    /\ FetchErr(last.gets[1]) = ErrCallNotFound
    /\ Len(last.calls) = 1
    /\ last.err = ErrNil

(***************************************************************************)
(* C23. Every record a GetCalls with a path returns has the app and the    *)
(* path of the filter, also after a call id was inserted again with        *)
(* another path.  Violated: the marker of the first path stays in the      *)
(* bucket and leads to the record at the primary key, which now carries    *)
(* the other path; nothing in the loop compares the record's path.         *)
(***************************************************************************)
C23_PathScopedRecords ==
    (Listed /\ last.filter.path # <<>>) =>
        \A n \in 1..Len(last.calls) :
            /\ last.calls[n].appID = last.filter.appID
            /\ last.calls[n].path = last.filter.path

\* the backend calls of a step: list calls, downloads, uploads
BackendCalls(o) == Len(o.lists) + Len(o.gets) + Len(o.puts)

\* the step uploaded, or tried to upload, a key with the prefix
PutUnder(o, prefix) == o.puts # <<>> /\ HasPrefix(o.puts[1], prefix)

(***************************************************************************)
(* C24. Every operation is a bounded sequence of backend calls, without    *)
(* retry.  InsertCall makes one upload of the primary key, and is over     *)
(* when it fails; then one upload of the marker key, and is over whether   *)
(* that one failed or not: no step of it follows.  GetCall makes one       *)
(* download, of the primary key.  GetCalls without an app makes no backend *)
(* call; with an app it makes one list call and then at most one download  *)
(* per key listed, in the order listed, of at most perPage keys, and none  *)
(* when the list call failed.                                              *)
(***************************************************************************)
C24_BoundedBackendCalls ==
    [][ /\ inflight' \subseteq inflight \cup {last'.call}
        /\ last'.op \notin {"InsertCall.primary", "InsertCall"} => inflight' = inflight
        /\ PutUnder(last', callKeyPrefix) =>
               /\ last'.puts = <<callKey(last'.call.appID, last'.call.id)>>
               /\ BackendCalls(last') = 1
               /\ IF last'.fault = "primary"
                  THEN last'.op = "InsertCall" /\ inflight' = inflight
                  ELSE /\ last'.op = "InsertCall.primary"
                       /\ inflight' = inflight \cup {last'.call}
        /\ PutUnder(last', callMarkerPrefix) =>
               /\ last'.puts = <<callMarkerKey(last'.call.appID, last'.call.path,
                                               last'.call.id)>>
               /\ BackendCalls(last') = 1
               /\ last'.op = "InsertCall"
               /\ last'.call \in inflight
               /\ inflight' = inflight \ {last'.call}
        /\ last'.op = "GetCall" =>
               /\ last'.gets = <<callKey(last'.call.appID, last'.call.id)>>
               /\ BackendCalls(last') = 1
        /\ (last'.op = "GetCalls" /\ last'.filter.appID = <<>>) =>
               BackendCalls(last') = 0
        /\ (last'.op = "GetCalls" /\ last'.filter.appID # <<>>) =>
               /\ Len(last'.lists) = 1 /\ last'.puts = <<>>
               /\ Len(last'.listed) <= last'.filter.perPage
               /\ Len(last'.gets) <= Len(last'.listed)
               /\ \A n \in 1..Len(last'.gets) :
                      last'.gets[n] =
                          callKeyFlipped(DecodeKey(last'.filter, last'.listed[n]).app,
                                         DecodeKey(last'.filter, last'.listed[n]).id)
               /\ last'.fault = "list" => last'.gets = <<>>
      ]_vars

\* the marker upload of an InsertCall has failed: the one upload is all the
\* step did and the call is not in flight any more
C24_Witness ==
    /\ last.op = "InsertCall" /\ last.fault = "marker"
    /\ Len(last.puts) = 1
    /\ last.call \notin inflight

\* the keys of the namespaces of calls and of markers
CallOrMarkerKey(key) ==
    HasPrefix(key, callKeyPrefix) \/ HasPrefix(key, callMarkerPrefix)

(***************************************************************************)
(* C25. Reads have no effect on the store: a step of GetCall, GetCalls or  *)
(* GetLog leaves every key and object of the bucket as it was, whether it  *)
(* succeeds, fails, stops at a key or skips entries.  No step of any       *)
(* operation takes a key away, and of the operations only a step of        *)
(* InsertCall brings a key of the calls or markers namespace into the      *)
(* bucket: the key that step uploaded.                                     *)
(***************************************************************************)
C25_ReadsHaveNoEffect ==
    [][ /\ IsRead(last'.op) => store' = store
        /\ DOMAIN store \subseteq DOMAIN store'
        /\ \A key \in DOMAIN store' \ DOMAIN store :
               (CallOrMarkerKey(key) /\ last'.op # "PutForeign") =>
                   /\ last'.op \in {"InsertCall.primary", "InsertCall"}
                   /\ last'.puts = <<key>>
      ]_vars

\* a listing that skipped an entry whose download failed and stopped at a
\* key with a field too many, over a bucket with calls and markers in it
C25_Witness ==
    /\ Listed /\ last.fault = "get" /\ last.err = ErrInvalidKey
    /\ Len(last.gets) >= 1 /\ last.gets[1] \in last.down
    /\ \E key \in DOMAIN store : HasPrefix(key, callMarkerPrefix)

\* what every GetCall and every GetCalls return from the bucket, with the
\* keys they list and fetch
CallReads(st) ==
    [gets |-> [appID \in Apps, callID \in PlainIds |-> GetCallOp(st, appID, callID)],
     lists |-> [filter \in PlainFilters |-> GetCallsOp(st, filter, NoFaults)]]

\* what every GetLog returns from the bucket
LogReads(st) ==
    [appID \in Apps, callID \in PlainIds |-> GetLogOp(st, appID, callID, TRUE)]

(***************************************************************************)
(* C26. Logs and calls are independent.  A step of InsertLog uploads one   *)
(* key, the log key of its app and call id in the namespace of logs, and   *)
(* changes no other key; it leaves what every GetCall and GetCalls returns *)
(* as it was, with the keys they list.  After a successful InsertLog,      *)
(* GetLog of the app and id returns the bytes written.  Every other step,  *)
(* those of InsertCall included, leaves what every GetLog returns as it    *)
(* was: GetLog returns the bytes last written.                             *)
(***************************************************************************)
C26_LogsIndependent ==
    [][ /\ last'.op = "InsertLog" =>
               /\ last'.puts = <<logKey(last'.call.appID, last'.call.id)>>
               /\ HasPrefix(last'.puts[1], logKeyPrefix)
               /\ \A key \in DOMAIN store' \cup DOMAIN store :
                      key # last'.puts[1] =>
                          key \in DOMAIN store' \cap DOMAIN store
                              /\ store'[key] = store[key]
               /\ CallReads(store') = CallReads(store)
        /\ (last'.op = "InsertLog" /\ last'.err = ErrNil) =>
               GetLogOp(store', last'.call.appID, last'.call.id, TRUE)
                   = [err |-> ErrNil, log |-> last'.log]
        /\ ~(last'.op = "InsertLog" /\ last'.err = ErrNil) =>
               LogReads(store') = LogReads(store)
      ]_vars

\* an empty log written for a call, in a bucket with the call and its marker
C26_Witness ==
    /\ last.op = "InsertLog" /\ last.err = ErrNil /\ last.log = <<>>
    /\ inserts = MaxInserts
    /\ callKey(AppA1, CallId(0, 0)) \in DOMAIN store
    /\ callMarkerKey(AppA1, PathF, CallId(0, 0)) \in DOMAIN store
    /\ store[logKey(AppA1, CallId(0, 0))] = RawObject(<<>>)

====
